---------------------------- MODULE Spec2Model ----------------------------
(***************************************************************************)
(* A model of typst-ws (src/src/main.rs): the SystemWorld file cache, the  *)
(* filesystem-event filter, the watch/recompile loop and the websocket     *)
(* broadcast hub.                                                          *)
(***************************************************************************)
EXTENDS Naturals, Sequences, FiniteSets, TLC

(***************************************************************************)
(* Bounds of the model.                                                    *)
(***************************************************************************)
\* filesystem changes / notifications the environment produces in one run
MaxEvents == 3
\* filesystem changes in one run of the file-cache specification
MaxChanges == 2
\* viewer connections accepted in one run
MaxSessions == 3
\* World lookups the calls of typst::compile make in one run
MaxLookups == 3

(***************************************************************************)
(* Program constants.                                                      *)
(***************************************************************************)
\* channel(1): the buffer of the watcher's mpsc channel
ChannelBuffer == 1
\* SourceId::from_u16(len as u16): source ids are 16 bits wide
U16 == 65536

(***************************************************************************)
(* The filesystem the program runs on.                                     *)
(***************************************************************************)
NoFile == "none"
\* file identities (device + inode)
Inodes == {"i1", "i2", "i3"}
\* directory entries of the watched tree
MainFile == "/r/main.typ"
DepFile == "/r/dep.typ"
FontFile == "/r/font.otf"
RealPaths == {MainFile, DepFile, FontFile}
\* command.input as given on the command line, relative to the working
\* directory /r
Input == "main.typ"
\* a symbolic link to /r/dep.typ
LinkPath == "/r/lnk.typ"
\* /r/dep.typ as a watcher spells it when the root was given as /r/.
DotPath == "/r/./dep.typ"
Paths == RealPaths \cup {Input, LinkPath, DotPath}
\* paths the compiler asks the World for while compiling
CompilerPaths == {MainFile, DepFile, LinkPath}
\* file contents, up to what the program tells apart: bytes that decode
\* as UTF-8 text, and the bytes of an OpenType font (which do not)
Contents == {"text", "bin"}

VARIABLES
  dir,        \* filesystem: directory entry -> inode or NoFile
  content,    \* filesystem: inode -> content
  hashes,     \* SystemWorld.hashes: path -> FileResult<PathHash>
  paths,      \* SystemWorld.paths: PathHash -> PathSlot
  sources,    \* SystemWorld.sources: FrozenVec<Box<Source>>
  fonts,      \* SystemWorld.fonts: Vec<FontSlot>
  main,       \* SystemWorld.main
  cycle,      \* history: number of reset() calls so far
  last,       \* history: the most recent World call and what it did
  seen,       \* history: path -> result of the first resolve in this cycle
  born,       \* history: key of hashes -> the value it was inserted with
  stable,     \* history: no directory entry has changed since the reset
  fileReads,  \* history: inode -> read() calls on that file in this cycle
  slotReads,  \* history: PathHash -> read() calls per slot field in this cycle
  wpc,        \* position of the watch task
  lookups,    \* lookups made by the running typst::compile
  outcome,    \* history: how the last compile_once ended
  watching,   \* the filesystem watcher is installed
  pending,    \* events the watcher thread has still to send
  rx,         \* the watcher's channel
  emitted,    \* history: number of events emitted so far
  nrecv,      \* history: number of events the watch loop has received
  owed,       \* history: a relevant event was received and no compile_once
              \* has started since
  trig,       \* history: the event the watch loop examined last: whether a
              \* path of it was touched, whether one was not, what relevant
              \* answered
  compiles,   \* history: compile_once calls made for events of one burst
  running,    \* history: compile_once calls entered and not yet returned
  conns,      \* the sessions: Arc<Mutex<Vec<WebSocketStream>>>
  lockq,      \* tokio Mutex of conns: its holder, then its waiters in order
  tasks,      \* the spawned broadcast_result tasks, in spawn order
  apc,        \* position of the accept loop of main
  nsess,      \* number of connections accepted so far
  alive,      \* sessions whose peer still reads
  hung,       \* sessions whose transport takes no write and reports no error
  inbox       \* history: session -> broadcasts sent to it

fsVars == <<dir, content>>
worldVars == <<hashes, paths, sources, fonts, main>>
histVars == <<cycle, last, seen, born, stable, fileReads, slotReads>>
watchVars == <<wpc, lookups, outcome, watching, pending, rx, emitted, nrecv, owed, trig, compiles,
              running>>
hubVars == <<conns, lockq, apc, nsess, alive, hung, inbox>>
vars == <<fsVars, worldVars, histVars, watchVars, tasks, hubVars>>

(***************************************************************************)
(* Results and once-cells.                                                 *)
(***************************************************************************)
Ok(v) == [ok |-> v]
Err(e) == [err |-> e]
IsOk(r) == DOMAIN r = {"ok"}
\* OnceCell<T>: empty, or holding the value of its first initialisation
Unset == <<>>
Cell(v) == <<v>>
IsSet(c) == c # <<>>
\* the components of a path, by which PathBuf compares and hashes: a "."
\* inside a path is no component
PathKey(k) == IF k = DotPath THEN DepFile ELSE k
\* HashMap::contains_key
HasKey(f, k) == \E x \in DOMAIN f : PathKey(x) = PathKey(k)
\* the key of the map that equals k
KeyOf(f, k) == CHOOSE x \in DOMAIN f : PathKey(x) = PathKey(k)
\* HashMap::get
Get(f, k) == f[KeyOf(f, k)]
\* HashMap::insert: the value of an equal key is replaced, the key is kept
Put(f, k, v) ==
  IF HasKey(f, k) THEN [f EXCEPT ![KeyOf(f, k)] = v]
  ELSE [x \in DOMAIN f \cup {k} |-> IF x = k THEN v ELSE f[x]]
EmptyMap == [x \in {} |-> x]
\* PathSlot::default()
DefaultSlot == [source |-> Unset, buffer |-> Unset]

(***************************************************************************)
(* Path arithmetic.                                                        *)
(***************************************************************************)
\* the directory entry a path leads to once the working directory is
\* applied and symbolic links are followed
Target(p) ==
  CASE p = Input -> MainFile
    [] p = LinkPath -> DepFile
    [] p = DotPath -> DepFile
    [] OTHER -> p

\* PathExt::normalize: lexical removal of "." and ".." components; links
\* are not followed and a relative path stays relative
Normalize(p) == IF p = DotPath THEN DepFile ELSE p

\* Path::canonicalize
Canonicalize(d, p) ==
  IF d[Target(p)] = NoFile THEN Err("NotFound") ELSE Ok(Target(p))

ValidUtf8(c) == c # "bin"
ValidFont(c) == c = "bin"

\* a hash of the spelling of the path
PathHashOfName(d, p) ==
  IF d[Target(p)] = NoFile THEN Err("NotFound") ELSE Ok(p)

\* PathHash::new: the hash of the file's handle (device and inode)
PathHashNew(d, p) ==
  IF d[Target(p)] = NoFile THEN Err("NotFound") ELSE Ok(d[Target(p)])

\* fs::metadata(path)?.is_dir(); no directory entry of the model is one
IsDir(c) == c = "dir"

\* read(path)
Read(d, c, p) ==
  IF d[Target(p)] = NoFile THEN Err("NotFound")
  ELSE IF IsDir(c[d[Target(p)]]) THEN Err("IsDirectory")
  ELSE Ok(c[d[Target(p)]])

(***************************************************************************)
(* SystemWorld.  Each operation is an operator from the fields it reads to *)
(* a record of the fields it writes, its result, and what it did to the    *)
(* filesystem (stat: PathHash::new was called, read: read() was called).   *)
(***************************************************************************)
\* SystemWorld::slot: the cached hash of the path or, on a miss, a fresh
\* one stored under the canonical path and under the path as given
SlotHashes(h, d, p) ==
  IF HasKey(h, p) THEN h
  ELSE LET hash == PathHashNew(d, p)
           canon == Canonicalize(d, p)
           h1 == IF IsOk(canon) THEN Put(h, Normalize(canon.ok), hash) ELSE h
       IN Put(h1, p, hash)

Slot(h, ps, d, p) ==
  LET h2 == SlotHashes(h, d, p)
      hash == IF HasKey(h, p) THEN Get(h, p) ELSE PathHashNew(d, p)
  IN [hashes |-> h2,
      paths |-> IF IsOk(hash) /\ hash.ok \notin DOMAIN ps
                THEN Put(ps, hash.ok, DefaultSlot) ELSE ps,
      res |-> hash,
      stat |-> ~HasKey(h, p)]

\* SystemWorld::insert
Insert(srcs, p, text, gen) ==
  Append(srcs, [id |-> Len(srcs) % U16, path |-> p, text |-> text, gen |-> gen])

\* the initialiser of PathSlot.source in resolve
LoadSource(srcs, d, c, p, gen) ==
  LET buf == Read(d, c, p)
  IN IF ~IsOk(buf) THEN [sources |-> srcs, res |-> buf]
     ELSE IF ~ValidUtf8(buf.ok) THEN [sources |-> srcs, res |-> Err("InvalidUtf8")]
     ELSE [sources |-> Insert(srcs, p, buf.ok, gen), res |-> Ok(Len(srcs) % U16)]

\* a cell that runs its initialiser on every call
NoSourceMemo(slot) == FALSE

\* OnceCell::get_or_init on PathSlot.source
SourceMemo(slot) == IsSet(slot.source)

\* World::resolve
Resolve(h, ps, srcs, d, c, p, gen) ==
  LET s == Slot(h, ps, d, p)
  IN IF ~IsOk(s.res)
     THEN [hashes |-> s.hashes, paths |-> s.paths, sources |-> srcs,
           res |-> s.res, stat |-> s.stat, read |-> FALSE]
     ELSE LET slot == s.paths[s.res.ok]
          IN IF SourceMemo(slot)
             THEN [hashes |-> s.hashes, paths |-> s.paths, sources |-> srcs,
                   res |-> slot.source[1], stat |-> s.stat, read |-> FALSE]
             ELSE LET ld == LoadSource(srcs, d, c, p, gen)
                  IN [hashes |-> s.hashes,
                      paths |-> [s.paths EXCEPT ![s.res.ok].source = Cell(ld.res)],
                      sources |-> ld.sources,
                      res |-> ld.res, stat |-> s.stat, read |-> TRUE]

\* the initialiser of PathSlot.buffer in file
LoadBuffer(d, c, p, gen) ==
  LET buf == Read(d, c, p)
  IN IF IsOk(buf) THEN Ok([data |-> buf.ok, gen |-> gen]) ELSE buf

\* OnceCell::get_or_init on PathSlot.buffer
BufferMemo(slot) == IsSet(slot.buffer)

\* World::file
File(h, ps, d, c, p, gen) ==
  LET s == Slot(h, ps, d, p)
  IN IF ~IsOk(s.res)
     THEN [hashes |-> s.hashes, paths |-> s.paths,
           res |-> s.res, stat |-> s.stat, read |-> FALSE]
     ELSE LET slot == s.paths[s.res.ok]
          IN IF BufferMemo(slot)
             THEN [hashes |-> s.hashes, paths |-> s.paths,
                   res |-> slot.buffer[1], stat |-> s.stat, read |-> FALSE]
             ELSE LET ld == LoadBuffer(d, c, p, gen)
                  IN [hashes |-> s.hashes,
                      paths |-> [s.paths EXCEPT ![s.res.ok].buffer = Cell(ld)],
                      res |-> ld, stat |-> s.stat, read |-> TRUE]

\* Font::new(data, index): None when the data is no font
FontNew(buf, index) ==
  IF ValidFont(buf.data) THEN Ok([data |-> buf.data, index |-> index, gen |-> buf.gen])
  ELSE Err("None")

\* OnceCell::get_or_init on FontSlot.font
FontMemo(fslot) == IsSet(fslot.font)

\* World::font
Font(fs, h, ps, d, c, id, gen) ==
  LET fslot == fs[id]
  IN IF FontMemo(fslot)
     THEN [fonts |-> fs, hashes |-> h, paths |-> ps,
           res |-> fslot.font[1], stat |-> FALSE, read |-> FALSE]
     ELSE LET f == File(h, ps, d, c, fslot.path, gen)
              font == IF IsOk(f.res) THEN FontNew(f.res.ok, fslot.index) ELSE Err("None")
          IN [fonts |-> [fs EXCEPT ![id].font = Cell(font)],
              hashes |-> f.hashes, paths |-> f.paths,
              res |-> font, stat |-> f.stat, read |-> f.read]

\* SystemWorld::dependant
Dependant(h, ps, d, p) ==
  \/ HasKey(h, Normalize(p))
  \/ LET hash == PathHashNew(d, p) IN IsOk(hash) /\ hash.ok \in DOMAIN ps

\* the kinds of notify::EventKind the match of relevant tells apart
EventKinds ==
  {"Any", "Access", "Create", "ModifyAny", "ModifyData", "ModifyMetadata",
   "ModifyName", "ModifyOther", "Remove", "Other"}

\* a match that leaves reads and chmods to the check of the paths
KindVerdictByPath(kind) ==
  CASE kind = "Create" -> "true"
    [] kind = "ModifyName" -> "true"
    [] kind = "ModifyOther" -> "false"
    [] kind = "Other" -> "false"
    [] OTHER -> "paths"

\* the arms of the match in relevant that return at once
KindVerdict(kind) ==
  CASE kind = "Access" -> "false"
    [] kind = "Create" -> "true"
    [] kind = "ModifyMetadata" -> "false"
    [] kind = "ModifyName" -> "true"
    [] kind = "ModifyOther" -> "false"
    [] kind = "Other" -> "false"
    [] OTHER -> "paths"

\* a check that wants every path of the event touched
AllPathsRelevant(h, ps, d, ev) ==
  CASE KindVerdict(ev.kind) = "false" -> FALSE
    [] KindVerdict(ev.kind) = "true" -> TRUE
    [] OTHER -> \A i \in 1..Len(ev.paths) : Dependant(h, ps, d, ev.paths[i])

\* SystemWorld::relevant
Relevant(h, ps, d, ev) ==
  CASE KindVerdict(ev.kind) = "false" -> FALSE
    [] KindVerdict(ev.kind) = "true" -> TRUE
    [] OTHER -> \E i \in 1..Len(ev.paths) : Dependant(h, ps, d, ev.paths[i])


\* a reset that leaves the sources / the slots in place
KeepSources(srcs) == srcs
KeepPaths(ps) == ps

\* SystemWorld::reset, field by field
ResetSources(srcs) == <<>>
ResetHashes(h) == EmptyMap
ResetPaths(ps) == EmptyMap

(***************************************************************************)
(* History kept beside the World: what each call did.                      *)
(***************************************************************************)
NoReads == [i \in Inodes |-> 0]
NoSlotReads == [i \in Inodes |-> [source |-> 0, buffer |-> 0]]
NoCall == [op |-> "none", path |-> "", res |-> Err("none"), stat |-> FALSE,
           read |-> FALSE, first |-> FALSE, hit |-> FALSE]

\* a call of op on path p that returned r.res: field is the slot field it
\* loads, h the hashes before the call
Record(op, field, p, r, h, sn, fr, sr) ==
  /\ last' = [op |-> op, path |-> p, res |-> r.res, stat |-> r.stat,
              read |-> r.read, first |-> (op = "resolve" /\ ~HasKey(sn, p)),
              hit |-> HasKey(h, p)]
  /\ seen' = IF op = "resolve" /\ ~HasKey(sn, p) THEN Put(sn, p, r.res) ELSE sn
  /\ born' = [k \in DOMAIN r.hashes |->
                IF k \in DOMAIN born THEN born[k] ELSE r.hashes[k]]
  /\ stable' = stable
  /\ fileReads' = IF r.read /\ dir[Target(p)] # NoFile
                  THEN [fr EXCEPT ![dir[Target(p)]] = @ + 1] ELSE fr
  /\ slotReads' = IF r.read
                  THEN [sr EXCEPT ![Get(r.hashes, p).ok][field] = @ + 1] ELSE sr

(***************************************************************************)
(* The environment: other processes changing the watched tree.  While the  *)
(* watcher is installed each change is reported as one event, tagged       *)
(* (history) with the number of events the watch loop had received when it *)
(* was emitted: events with equal tags were all emitted before the first   *)
(* of them was received.                                                   *)
(***************************************************************************)
Event(kind, ps) == [kind |-> kind, paths |-> ps, burst |-> nrecv]

\* the watcher thread calls the callback of async_watcher with the event:
\* tx.send(res) puts it on the channel, or blocks while the channel holds
\* its buffer plus the sender's own slot
Emit(ev) ==
  /\ emitted < MaxEvents
  /\ emitted' = emitted + 1
  /\ IF ~watching THEN UNCHANGED <<pending, rx>>
     ELSE IF pending = <<>> /\ Len(rx) < ChannelBuffer + 1
          THEN rx' = Append(rx, ev) /\ UNCHANGED pending
          ELSE pending' = Append(pending, ev) /\ UNCHANGED rx
  /\ UNCHANGED <<wpc, lookups, outcome, watching, nrecv, owed, trig, compiles, running>>
  /\ UNCHANGED <<tasks, hubVars>>

\* a process overwrites the file at p in place (possibly with the bytes it
\* already holds)
FsWrite(p, c) ==
  /\ dir[p] # NoFile
  /\ content' = [content EXCEPT ![dir[p]] = c]
  /\ Emit(Event("ModifyData", <<p>>))
  /\ UNCHANGED <<dir, worldVars, histVars>>

\* a process unlinks p
FsRemove(p) ==
  /\ dir[p] # NoFile
  /\ dir' = [dir EXCEPT ![p] = NoFile]
  /\ Emit(Event("Remove", <<p>>))
  /\ stable' = FALSE
  /\ UNCHANGED <<content, worldVars, cycle, last, seen, born, fileReads, slotReads>>

\* a process creates p: a new file on an unused inode, or a hard link to
\* the inode of another entry
FsCreate(p, i) ==
  /\ dir[p] = NoFile
  /\ dir' = [dir EXCEPT ![p] = i]
  /\ content' = IF \E q \in RealPaths : dir[q] = i THEN content
                ELSE [content EXCEPT ![i] = "text"]
  /\ Emit(Event("Create", <<p>>))
  /\ stable' = FALSE
  /\ UNCHANGED <<worldVars, cycle, last, seen, born, fileReads, slotReads>>

\* a process renames p to q, reported as one event with both paths
FsRename(p, q) ==
  /\ dir[p] # NoFile
  /\ dir[q] = NoFile
  /\ dir' = [dir EXCEPT ![q] = dir[p], ![p] = NoFile]
  /\ Emit(Event("ModifyName", <<p, q>>))
  /\ stable' = FALSE
  /\ UNCHANGED <<content, worldVars, cycle, last, seen, born, fileReads, slotReads>>

\* a notification that changes neither an entry nor a content: a read, a
\* chmod, a platform-specific event, with the paths ps
FsNotify(kind, ps) ==
  /\ Emit(Event(kind, ps))
  /\ UNCHANGED <<fsVars, worldVars, histVars>>

\* the watcher reports an error instead of an event
FsError ==
  /\ watching
  /\ Emit([kind |-> "Error", paths |-> <<>>, burst |-> nrecv])
  /\ UNCHANGED <<fsVars, worldVars, histVars>>

\* async_watcher: the blocked callback of the watcher thread goes on once
\* the channel has room
WatcherSend ==
  /\ pending # <<>>
  /\ Len(rx) < ChannelBuffer + 1
  /\ rx' = Append(rx, Head(pending))
  /\ pending' = Tail(pending)
  /\ UNCHANGED <<fsVars, worldVars, histVars>>
  /\ UNCHANGED <<wpc, lookups, outcome, watching, emitted, nrecv, owed, trig, compiles, running>>
  /\ UNCHANGED <<tasks, hubVars>>

(***************************************************************************)
(* The watch task: watch() and compile_once().                             *)
(***************************************************************************)
\* watch returns: its world, its watcher and its receiver are dropped
WatchExit(why) ==
  /\ wpc' = "exit"
  /\ outcome' = why
  /\ watching' = FALSE
  /\ pending' = <<>>
  /\ rx' = <<>>

\* compile_once, first part: status(Compiling) and world.reset()
CompileReset ==
  /\ wpc \in {"start", "compile"}
  /\ wpc' = "resolve"
  /\ sources' = ResetSources(sources)
  /\ hashes' = ResetHashes(hashes)
  /\ paths' = ResetPaths(paths)
  /\ cycle' = cycle + 1
  /\ seen' = EmptyMap
  /\ born' = EmptyMap
  /\ stable' = TRUE
  /\ fileReads' = NoReads
  /\ slotReads' = NoSlotReads
  /\ last' = [NoCall EXCEPT !.op = "reset"]
  /\ compiles' = IF wpc = "start" THEN compiles
                 ELSE IF compiles.burst = trig.burst
                      THEN [compiles EXCEPT !.n = @ + 1]
                      ELSE [burst |-> trig.burst, n |-> 1]
  /\ UNCHANGED <<fsVars, fonts, main, tasks, hubVars>>
  /\ UNCHANGED <<lookups, outcome, watching, pending, rx, emitted, nrecv, trig>>
  /\ owed' = FALSE
  /\ running' = running + 1

\* compile_once: world.main = world.resolve(&command.input)?, the error
\* returned through compile_once and through watch
CompileResolve ==
  /\ wpc = "resolve"
  /\ LET r == Resolve(hashes, paths, sources, dir, content, Input, cycle)
     IN /\ hashes' = r.hashes
        /\ paths' = r.paths
        /\ sources' = r.sources
        /\ Record("resolve", "source", Input, r, hashes, seen, fileReads, slotReads)
        /\ IF IsOk(r.res)
           THEN /\ main' = r.res.ok
                /\ wpc' = "typst"
                /\ UNCHANGED <<outcome, watching, pending, rx, running>>
           ELSE /\ WatchExit("resolve_failed")
                /\ running' = running - 1
                /\ UNCHANGED main
  /\ UNCHANGED <<fsVars, fonts, cycle, lookups, emitted, nrecv, owed, trig, compiles, tasks, hubVars>>

\* typst::compile asks the World for a source
TypstResolve(p) ==
  /\ wpc = "typst"
  /\ lookups < MaxLookups
  /\ lookups' = lookups + 1
  /\ LET r == Resolve(hashes, paths, sources, dir, content, p, cycle)
     IN /\ hashes' = r.hashes
        /\ paths' = r.paths
        /\ sources' = r.sources
        /\ Record("resolve", "source", p, r, hashes, seen, fileReads, slotReads)
  /\ UNCHANGED <<fsVars, fonts, main, cycle, tasks, hubVars>>
  /\ UNCHANGED <<wpc, outcome, watching, pending, rx, emitted, nrecv, owed, trig, compiles, running>>

\* typst::compile asks the World for the bytes of a file
TypstFile(p) ==
  /\ wpc = "typst"
  /\ lookups < MaxLookups
  /\ lookups' = lookups + 1
  /\ LET r == File(hashes, paths, dir, content, p, cycle)
     IN /\ hashes' = r.hashes
        /\ paths' = r.paths
        /\ Record("file", "buffer", p, r, hashes, seen, fileReads, slotReads)
  /\ UNCHANGED <<fsVars, sources, fonts, main, cycle, tasks, hubVars>>
  /\ UNCHANGED <<wpc, outcome, watching, pending, rx, emitted, nrecv, owed, trig, compiles, running>>

\* typst::compile asks the World for a font
TypstFont(id) ==
  /\ wpc = "typst"
  /\ lookups < MaxLookups
  /\ lookups' = lookups + 1
  /\ LET r == Font(fonts, hashes, paths, dir, content, id, cycle)
     IN /\ fonts' = r.fonts
        /\ hashes' = r.hashes
        /\ paths' = r.paths
        /\ Record("font", "buffer", fonts[id].path, r, hashes, seen, fileReads, slotReads)
  /\ UNCHANGED <<fsVars, sources, main, cycle, tasks, hubVars>>
  /\ UNCHANGED <<wpc, outcome, watching, pending, rx, emitted, nrecv, owed, trig, compiles, running>>

\* a compile_once that returns the pages it rendered whatever the result
PixmapsOfAnyResult(result) == <<"page">>

\* the pixmaps compile_once returns for a result of typst::compile
Pixmaps(result) == IF result = "document" THEN <<"page">> ELSE <<>>

\* tokio::spawn(broadcast_result(conns, imgs))
\* (failed is history: the sessions whose send failed in this broadcast; at
\* is history: the events the watch loop had received at its latest send)
Spawn(ts, imgs) ==
  Append(ts, [imgs |-> imgs, pc |-> "spawned", i |-> 0, rem |-> {}, failed |-> {},
              at |-> 0])

\* compile_once, last part: typst::compile returns a document or errors,
\* the pages are rendered or the diagnostics printed; then, in watch, the
\* broadcast is spawned and (after the first compilation) the watcher is
\* installed
CompileEnd(result) ==
  /\ wpc = "typst"
  /\ IF result = "diagnostics_failed"
     THEN /\ WatchExit("diagnostics_failed")
          /\ UNCHANGED tasks
     ELSE /\ wpc' = "recv"
          /\ outcome' = result
          /\ watching' = TRUE
          /\ tasks' = Spawn(tasks, Pixmaps(result))
          /\ UNCHANGED <<pending, rx>>
  /\ running' = running - 1
  /\ UNCHANGED <<fsVars, worldVars, histVars, hubVars>>
  /\ UNCHANGED <<lookups, emitted, nrecv, owed, trig, compiles>>

\* watch after the first compile_once: the broadcast is spawned, then
\* async_watcher().unwrap() or watcher.watch(..).unwrap() panics (the limits
\* of inotify are reached): the watch task ends with no watcher installed
\* and nothing printed by main, which goes on accepting
WatcherFails(result) ==
  /\ wpc = "typst"
  /\ ~watching
  /\ result \in {"document", "errors"}
  /\ WatchExit(result)
  /\ tasks' = Spawn(tasks, Pixmaps(result))
  /\ running' = running - 1
  /\ UNCHANGED <<fsVars, worldVars, histVars, hubVars>>
  /\ UNCHANGED <<lookups, emitted, nrecv, owed, trig, compiles>>

\* a loop that no event breaks
NeverBreaks(item) == FALSE

\* whether the loop of watch breaks on an item of the channel
Breaks(item) == Relevant(hashes, paths, dir, item)

\* a loop that goes back to the channel only once no broadcast holds or
\* awaits the lock of conns
RecvAfterBroadcast == wpc = "recv" /\ rx # <<>> /\ lockq = <<>>

\* events taken from the channel as they come, a compilation running or
\* not
RecvAnytime == wpc # "exit" /\ rx # <<>>

\* rx.next().await is ready: the loop waits for the channel and for nothing
\* else
RecvReady == wpc = "recv" /\ rx # <<>>

\* the loop of watch: rx.next().await, the error of the watcher returned,
\* a relevant event breaking out to compile_once
WatchRecv ==
  /\ RecvReady
  /\ nrecv' = nrecv + 1
  /\ LET item == Head(rx)
     IN IF item.kind = "Error"
        THEN /\ WatchExit("watch_failed")
             /\ UNCHANGED <<trig, owed>>
        ELSE /\ rx' = Tail(rx)
             /\ wpc' = IF Breaks(item) THEN "compile" ELSE "recv"
             /\ owed' = (owed \/ Relevant(hashes, paths, dir, item))
             /\ trig' = [kind |-> item.kind, paths |-> item.paths,
                         burst |-> item.burst,
                         touched |-> \E i \in 1..Len(item.paths) :
                            Dependant(hashes, paths, dir, item.paths[i]),
                         untouched |-> \E i \in 1..Len(item.paths) :
                            ~Dependant(hashes, paths, dir, item.paths[i]),
                         verdict |-> Relevant(hashes, paths, dir, item)]
             /\ UNCHANGED <<outcome, watching, pending>>
  /\ UNCHANGED <<fsVars, worldVars, histVars, tasks, hubVars>>
  /\ UNCHANGED <<lookups, emitted, compiles, running>>


(***************************************************************************)
(* The broadcast hub: broadcast_result tasks and the accept loop of main.  *)
(* Tasks are numbered from 1 in spawn order; 0 names the accept loop in    *)
(* the queue of the mutex.                                                 *)
(***************************************************************************)
AcceptLoop == 0

\* a closure that takes the indices to count from 1
KeepFromOne(rem, index) == index + 1 \notin rem

\* the closure of retain: |index, _item| !to_be_remove.contains(&index)
Keep(rem, index) == index \notin rem

\* conn_lock.retain(with_index(..)): with_index numbers the items from 0 in
\* the order retain visits them
Retain(s, rem) ==
  LET F[k \in 0..Len(s)] ==
        IF k = 0 THEN <<>>
        ELSE IF Keep(rem, k - 1) THEN Append(F[k - 1], s[k]) ELSE F[k - 1]
  IN F[Len(s)]

\* the message of a broadcast: the pages as a JSON array of data URIs
Message(t) == [bid |-> t, pages |-> tasks[t].imgs]

\* conn.send(..).await.is_err()
SendFails(session) == session \notin alive

\* conn.send(..).await stays pending: the peer is there and reads nothing
SendPending(session) == session \in alive /\ session \in hung

\* a mutex that lets every waiter in
NoMutex(t) == lockq # <<>>

\* whether task t holds the mutex of conns
Holds(t) == lockq # <<>> /\ Head(lockq) = t

\* broadcast_result: the pages are encoded, then conns.lock().await
BcastLock(t) ==
  /\ tasks[t].pc = "spawned"
  /\ tasks' = [tasks EXCEPT ![t].pc = "locked"]
  /\ lockq' = Append(lockq, t)
  /\ UNCHANGED <<fsVars, worldVars, histVars, watchVars>>
  /\ UNCHANGED <<conns, apc, nsess, alive, hung, inbox>>

\* broadcast_result: one turn of the loop over conn_lock.iter_mut()
BcastSend(t) ==
  /\ tasks[t].pc = "locked"
  /\ Holds(t)
  /\ tasks[t].i < Len(conns)
  /\ ~SendPending(conns[tasks[t].i + 1])
  /\ LET session == conns[tasks[t].i + 1]
     IN IF SendFails(session)
        THEN /\ tasks' = [tasks EXCEPT ![t].i = @ + 1,
                                       ![t].rem = @ \cup {tasks[t].i},
                                       ![t].failed = @ \cup {session},
                                       ![t].at = nrecv]
             /\ UNCHANGED inbox
        ELSE /\ tasks' = [tasks EXCEPT ![t].i = @ + 1, ![t].at = nrecv]
             /\ inbox' = [inbox EXCEPT ![session] = Append(@, Message(t))]
  /\ UNCHANGED <<fsVars, worldVars, histVars, watchVars>>
  /\ UNCHANGED <<conns, lockq, apc, nsess, alive, hung>>

\* broadcast_result: the loop is over; retain, and the guard is dropped
BcastRetain(t) ==
  /\ tasks[t].pc = "locked"
  /\ Holds(t)
  /\ tasks[t].i = Len(conns)
  /\ conns' = Retain(conns, tasks[t].rem)
  /\ lockq' = Tail(lockq)
  /\ tasks' = [tasks EXCEPT ![t].pc = "done"]
  /\ UNCHANGED <<fsVars, worldVars, histVars, watchVars>>
  /\ UNCHANGED <<apc, nsess, alive, hung, inbox>>

\* main: TcpListener::bind(&addr).await returns the listener
Bind ==
  /\ apc = "bind"
  /\ apc' = "accept"
  /\ UNCHANGED <<fsVars, worldVars, histVars, watchVars, tasks>>
  /\ UNCHANGED <<conns, lockq, nsess, alive, hung, inbox>>

\* main: the address is in use, say: try_socket.expect("Failed to bind")
\* panics, and main is over before it accepts anything
BindFails ==
  /\ apc = "bind"
  /\ apc' = "panicked"
  /\ UNCHANGED <<fsVars, worldVars, histVars, watchVars, tasks>>
  /\ UNCHANGED <<conns, lockq, nsess, alive, hung, inbox>>

\* main: listener.accept().await returns a stream
AcceptTcp ==
  /\ apc = "accept"
  /\ nsess < MaxSessions
  /\ nsess' = nsess + 1
  /\ alive' = alive \cup {nsess + 1}
  /\ apc' = "handshake"
  /\ UNCHANGED <<fsVars, worldVars, histVars, watchVars, tasks>>
  /\ UNCHANGED <<conns, lockq, hung, inbox>>

\* accept_connection returns the websocket; then conns.lock().await
AcceptHandshake ==
  /\ apc = "handshake"
  /\ apc' = "locked"
  /\ lockq' = Append(lockq, AcceptLoop)
  /\ UNCHANGED <<fsVars, worldVars, histVars, watchVars, tasks>>
  /\ UNCHANGED <<conns, nsess, alive, hung, inbox>>

\* main: listener.accept().await returns an error (the process is out of
\* file descriptors, say): the while let loop is left and main returns
AcceptFails ==
  /\ apc = "accept"
  /\ apc' = "returned"
  /\ UNCHANGED <<fsVars, worldVars, histVars, watchVars, tasks>>
  /\ UNCHANGED <<conns, lockq, nsess, alive, hung, inbox>>

\* accept_connection panics in expect: the handshake (or peer_addr) failed.
\* The call is awaited in the future of main itself, so the panic leaves
\* block_on and main; the stream of the connection is dropped
AcceptHandshakeFails ==
  /\ apc = "handshake"
  /\ apc' = "panicked"
  /\ alive' = alive \ {nsess}
  /\ UNCHANGED <<fsVars, worldVars, histVars, watchVars, tasks>>
  /\ UNCHANGED <<conns, lockq, nsess, hung, inbox>>

\* main is over, by a return or by a panic
MainEnded == apc \in {"returned", "panicked"}

\* the runtime is dropped after main: the workers finish what they are
\* polling (a compile_once under way runs to its end, a task that is ready
\* may still be polled), then the tasks are dropped, the sockets are closed
\* and the process ends
ProcessExit ==
  /\ MainEnded
  /\ wpc \in {"start", "recv", "exit"}
  /\ apc' = "ended"
  /\ IF wpc = "exit"
     THEN UNCHANGED <<wpc, outcome, watching, pending, rx>>
     ELSE WatchExit(IF apc = "panicked" THEN "main_panicked" ELSE "main_returned")
  /\ tasks' = [t \in DOMAIN tasks |->
                 IF tasks[t].pc = "done" THEN tasks[t]
                 ELSE [tasks[t] EXCEPT !.pc = "cancelled"]]
  /\ lockq' = <<>>
  /\ alive' = {}
  /\ UNCHANGED <<fsVars, worldVars, histVars>>
  /\ UNCHANGED <<lookups, emitted, nrecv, owed, trig, compiles, running>>
  /\ UNCHANGED <<conns, nsess, hung, inbox>>

\* main: push(conn), and the guard is dropped
AcceptPush ==
  /\ apc = "locked"
  /\ Holds(AcceptLoop)
  /\ conns' = Append(conns, nsess)
  /\ lockq' = Tail(lockq)
  /\ apc' = "accept"
  /\ UNCHANGED <<fsVars, worldVars, histVars, watchVars, tasks>>
  /\ UNCHANGED <<nsess, alive, hung, inbox>>

\* the peer of a session goes away: its transport takes no more writes
ClientClose(session) ==
  /\ session \in alive
  /\ alive' = alive \ {session}
  /\ UNCHANGED <<fsVars, worldVars, histVars, watchVars, tasks>>
  /\ UNCHANGED <<conns, lockq, apc, nsess, hung, inbox>>

\* the peer of a session stops reading: once the buffers of its socket are
\* full a write to it neither completes nor fails
ClientStall(session) ==
  /\ session \in alive
  /\ session \notin hung
  /\ hung' = hung \cup {session}
  /\ UNCHANGED <<fsVars, worldVars, histVars, watchVars, tasks>>
  /\ UNCHANGED <<conns, lockq, apc, nsess, alive, inbox>>

(***************************************************************************)
(* The initial state: main has spawned watch and is about to bind its      *)
(* listener.                                                               *)
(***************************************************************************)
\* SourceId::detached()
Detached == U16 - 1

Init ==
  /\ dir \in {[p \in RealPaths |->
                CASE p = MainFile -> "i1" [] p = DepFile -> d [] OTHER -> "i3"] :
              d \in {"i2", NoFile}}
  /\ content = [i \in Inodes |-> IF i = "i3" THEN "bin" ELSE "text"]
  /\ hashes = EmptyMap
  /\ paths = EmptyMap
  /\ sources = <<>>
  /\ fonts = <<[path |-> FontFile, index |-> 0, font |-> Unset]>>
  /\ main = Detached
  /\ cycle = 0
  /\ last = NoCall
  /\ seen = EmptyMap
  /\ born = EmptyMap
  /\ stable = TRUE
  /\ fileReads = NoReads
  /\ slotReads = NoSlotReads
  /\ wpc = "start"
  /\ lookups = 0
  /\ outcome = "none"
  /\ watching = FALSE
  /\ pending = <<>>
  /\ rx = <<>>
  /\ emitted = 0
  /\ nrecv = 0
  /\ owed = FALSE
  /\ trig = [kind |-> "none", paths |-> <<>>, burst |-> 0, touched |-> FALSE,
             untouched |-> FALSE, verdict |-> FALSE]
  /\ compiles = [burst |-> 0, n |-> 0]
  /\ running = 0
  /\ conns = <<>>
  /\ lockq = <<>>
  /\ tasks = <<>>
  /\ apc = "bind"
  /\ nsess = 0
  /\ alive = {}
  /\ hung = {}
  /\ inbox = [s \in 1..MaxSessions |-> <<>>]

(***************************************************************************)
(* The file cache under a changing filesystem: the watch task compiling    *)
(* documents that look up sources, files and fonts, while other processes  *)
(* write, remove and create the files.                                     *)
(***************************************************************************)
CacheFiles == {MainFile, DepFile}

CacheNext ==
  \/ \E p \in CacheFiles, c \in Contents : emitted < MaxChanges /\ FsWrite(p, c)
  \/ emitted < MaxChanges /\ FsRemove(DepFile)
  \/ \E i \in {"i1", "i2"} : emitted < MaxChanges /\ FsCreate(DepFile, i)
  \/ CompileReset
  \/ CompileResolve
  \/ \E p \in CompilerPaths : TypstResolve(p)
  \/ \E p \in CompilerPaths : TypstFile(p)
  \/ \E id \in DOMAIN fonts : TypstFont(id)
  \/ CompileEnd("document")
  \/ WatcherFails("document")
  \/ WatchRecv

SpecCache == Init /\ [][CacheNext]_vars

(***************************************************************************)
(* A large project: the compilation is under way, the root file is         *)
(* resolved and the compiler has loaded further source files, up to the    *)
(* number a 16-bit id can tell apart.  The slots of those files are left   *)
(* out: no lookup below goes through them.                                 *)
(***************************************************************************)
ChapterFile == "/r/ch.typ"

\* the store after n more calls of insert on a store of length first
Loaded(first, n, gen) ==
  [k \in 1..n |-> [id |-> (first + k - 1) % U16, path |-> ChapterFile,
                   text |-> "text", gen |-> gen]]

\* the numbers of chapters loaded before the lookups that are followed
ProjectSizes == {0, U16 - 1}

InitIds ==
  /\ dir = [p \in RealPaths |->
              CASE p = MainFile -> "i1" [] p = DepFile -> "i2" [] OTHER -> "i3"]
  /\ content = [i \in Inodes |-> IF i = "i3" THEN "bin" ELSE "text"]
  /\ \E n \in ProjectSizes :
       LET r == Resolve(EmptyMap, EmptyMap, <<>>, dir, content, Input, 1)
       IN /\ hashes = r.hashes
          /\ paths = r.paths
          /\ sources = r.sources \o Loaded(Len(r.sources), n, 1)
          /\ main = r.res.ok
          /\ last = [op |-> "resolve", path |-> Input, res |-> r.res, stat |-> r.stat,
                     read |-> r.read, first |-> TRUE, hit |-> FALSE]
          /\ seen = Put(EmptyMap, Input, r.res)
          /\ born = r.hashes
  /\ fonts = <<[path |-> FontFile, index |-> 0, font |-> Unset]>>
  /\ cycle = 1
  /\ stable = TRUE
  /\ fileReads = [NoReads EXCEPT !["i1"] = 1]
  /\ slotReads = [NoSlotReads EXCEPT !["i1"].source = 1]
  /\ wpc = "typst"
  /\ lookups = 0
  /\ outcome = "none"
  /\ watching = FALSE
  /\ pending = <<>>
  /\ rx = <<>>
  /\ emitted = 0
  /\ nrecv = 0
  /\ owed = FALSE
  /\ trig = [kind |-> "none", paths |-> <<>>, burst |-> 0, touched |-> FALSE,
             untouched |-> FALSE, verdict |-> FALSE]
  /\ compiles = [burst |-> 0, n |-> 0]
  /\ running = 1
  /\ conns = <<>>
  /\ lockq = <<>>
  /\ tasks = <<>>
  /\ apc = "accept"
  /\ nsess = 0
  /\ alive = {}
  /\ hung = {}
  /\ inbox = [s \in 1..MaxSessions |-> <<>>]

IdsNext ==
  \/ \E p \in CompilerPaths : TypstResolve(p)
  \/ \E p \in CompilerPaths : TypstFile(p)

SpecIds == InitIds /\ [][IdsNext]_vars


(***************************************************************************)
(* The watch loop under a stream of file-system events: writes of the root *)
(* file and of a file no compilation touched, the removal of the root      *)
(* file, the creation of a file, reads and chmods, errors of the watcher.  *)
(***************************************************************************)
Next ==
  \/ \E c \in Contents : FsWrite(MainFile, c)
  \/ FsWrite(FontFile, "bin")
  \/ FsRemove(MainFile)
  \/ FsCreate(DepFile, "i2")
  \/ FsRename(MainFile, DepFile)
  \/ \E kind \in {"Access", "ModifyMetadata"} : FsNotify(kind, <<MainFile>>)
  \/ FsNotify("Any", <<FontFile, DotPath>>)
  \/ FsError
  \/ WatcherSend
  \/ CompileReset
  \/ CompileResolve
  \/ TypstResolve(DepFile)
  \/ \E result \in {"document", "errors", "diagnostics_failed"} : CompileEnd(result)
  \/ \E result \in {"document", "errors"} : WatcherFails(result)
  \/ WatchRecv

Spec == Init /\ [][Next]_vars

\* the steps of the watch task: once spawned, the runtime keeps polling it,
\* and compile_once is straight-line code
WatchStep == CompileReset \/ CompileResolve \/ CompileEnd("document") \/ WatchRecv

\* the loop under one event of each sort: relevant by its path, relevant by
\* its kind, irrelevant, fatal
LoopNext ==
  \/ FsWrite(MainFile, "text")
  \/ FsRemove(MainFile)
  \/ FsCreate(DepFile, "i2")
  \/ FsNotify("Access", <<MainFile>>)
  \/ FsError
  \/ WatcherSend
  \/ CompileReset
  \/ CompileResolve
  \/ \E result \in {"document", "errors", "diagnostics_failed"} : CompileEnd(result)
  \/ \E result \in {"document", "errors"} : WatcherFails(result)
  \/ WatchRecv

FairSpec == Init /\ [][LoopNext]_vars /\ WF_vars(WatchStep)

(***************************************************************************)
(* The hub under load: the watch task recompiling after each write of the  *)
(* root file (MaxChanges compilations, the first included), the broadcasts *)
(* it spawns, viewers connecting and leaving.                              *)
(***************************************************************************)
HubNext ==
  \/ emitted + 1 < MaxChanges /\ FsWrite(MainFile, "text")
  \/ CompileReset
  \/ CompileResolve
  \/ CompileEnd("document")
  \/ WatcherFails("document")
  \/ WatchRecv
  \/ \E t \in DOMAIN tasks : BcastLock(t)
  \/ \E t \in DOMAIN tasks : BcastSend(t)
  \/ \E t \in DOMAIN tasks : BcastRetain(t)
  \/ Bind
  \/ AcceptTcp
  \/ AcceptHandshake
  \/ AcceptPush
  \/ \E k \in 1..Len(conns) : ClientClose(conns[k])

SpecHub == Init /\ [][HubNext]_vars

(***************************************************************************)
(* The dispatch of the broadcasts: compilations that end with a document,  *)
(* with errors of the compiler or with an error of compile_once, the       *)
(* broadcasts they spawn and the viewers that take them.                   *)
(***************************************************************************)
DispatchNext ==
  \/ emitted + 1 < MaxChanges /\ FsWrite(MainFile, "text")
  \/ CompileReset
  \/ CompileResolve
  \/ \E result \in {"document", "errors", "diagnostics_failed"} : CompileEnd(result)
  \/ \E result \in {"document", "errors"} : WatcherFails(result)
  \/ WatchRecv
  \/ \E t \in DOMAIN tasks : BcastLock(t)
  \/ \E t \in DOMAIN tasks : BcastSend(t)
  \/ \E t \in DOMAIN tasks : BcastRetain(t)
  \/ Bind
  \/ nsess + 1 < MaxSessions /\ AcceptTcp
  \/ AcceptHandshake
  \/ AcceptPush
  \/ \E k \in 1..Len(conns) : ClientClose(conns[k])

SpecDispatch == Init /\ [][DispatchNext]_vars

(***************************************************************************)
(* The viewers: connections whose handshake succeeds or fails, sessions    *)
(* whose peer leaves or stops reading.  The runtime keeps polling the      *)
(* tasks it has spawned and the future of main: a step of a task that can  *)
(* go on is taken.  What the peers do is up to them.                       *)
(***************************************************************************)
ViewerNext ==
  \/ emitted + 1 < MaxChanges /\ FsWrite(MainFile, "text")
  \/ CompileReset
  \/ CompileResolve
  \/ CompileEnd("document")
  \/ WatcherFails("document")
  \/ WatchRecv
  \/ \E t \in DOMAIN tasks : BcastLock(t)
  \/ \E t \in DOMAIN tasks : BcastSend(t)
  \/ \E t \in DOMAIN tasks : BcastRetain(t)
  \/ Bind
  \/ BindFails
  \/ nsess + 1 < MaxSessions /\ AcceptTcp
  \/ AcceptHandshake
  \/ AcceptHandshakeFails
  \/ AcceptFails
  \/ ProcessExit
  \/ AcceptPush
  \/ \E k \in 1..Len(conns) : ClientClose(conns[k])
  \/ \E k \in 1..Len(conns) : ClientStall(conns[k])

\* a step of broadcast task t
BcastStep(t) == t \in DOMAIN tasks /\ (BcastLock(t) \/ BcastSend(t) \/ BcastRetain(t))

FairViewers ==
  /\ Init
  /\ [][ViewerNext]_vars
  /\ WF_vars(WatchStep)
  /\ \A t \in 1..MaxChanges : WF_vars(BcastStep(t))
  /\ WF_vars(Bind)
  /\ WF_vars(AcceptPush)
  /\ WF_vars(ProcessExit)

(***************************************************************************)
(* Claims about the watch loop, checked under Spec and FairSpec.           *)
(***************************************************************************)
\* C1: a burst of relevant events (all emitted before the loop received
\* the first of them) leads to one recompilation, not one per event.
\* The loop has no debounce: every relevant event it receives breaks it,
\* so the recompilations counted for one burst go beyond one.
C1_OneCompilePerBurst == compiles.n <= 1

\* C2: every event the loop classifies as relevant is followed by a
\* recompilation (a call of compile_once), however the events, the
\* compilations and the watcher thread interleave.
C2_RelevantLeadsToCompile == owed ~> ~owed

\* C2, its case: a recompilation under way that a relevant event, received
\* by the loop, has caused.
C2_CompiledAfterEvent ==
  /\ wpc = "resolve"
  /\ cycle >= 2
  /\ trig.verdict
  /\ ~owed

\* C3: an event none of whose paths was touched by a compilation, whatever
\* its kind (a creation, a rename), never causes a recompilation.
\* relevant answers true for a creation before it looks at the paths.
C3_UntouchedNeverCompiles == wpc = "compile" => trig.touched

\* C6: when a recompilation fails because the root file cannot be resolved
\* (it was removed, or is not UTF-8), the loop stays alive.
\* The error of resolve leaves compile_once and watch through ?.
C6_ResolveFailureKeepsWatching ==
  (cycle >= 2 /\ outcome = "resolve_failed") => wpc # "exit"

\* C12: an event with several paths, of a kind that is decided by the
\* paths, is relevant as soon as one of its paths is touched; a rename of
\* a touched path to an untouched one is relevant.
C12_OneTouchedPathSuffices ==
  (/\ trig.kind \in {"Any", "ModifyAny", "ModifyData", "ModifyName", "Remove"}
   /\ trig.touched) => trig.verdict

\* C12, its case: the loop has examined a rename whose old path was loaded
\* in the last cycle and whose new path was not, and has broken on it.
C12_RenameOfLoadedPath ==
  /\ trig.kind = "ModifyName"
  /\ trig.paths = <<MainFile, DepFile>>
  /\ MainFile \in DOMAIN hashes
  /\ DepFile \notin DOMAIN hashes
  /\ trig.touched
  /\ trig.verdict
  /\ wpc = "compile"

\* C13: an access event or a metadata-only modification is never relevant,
\* whatever its paths and whatever the cache holds: the loop does not break
\* on it and no recompilation follows from it.
C13_AccessAndMetadataIgnored ==
  trig.kind \in {"Access", "ModifyMetadata"} =>
    /\ ~trig.verdict
    /\ ~owed
    /\ wpc \in {"recv", "exit"}

\* C13, its case: the loop has examined a chmod of the root file, loaded
\* in the current cycle, and waits for the next event.
C13_ChmodOfLoadedFile ==
  /\ trig.kind = "ModifyMetadata"
  /\ trig.paths = <<MainFile>>
  /\ trig.touched
  /\ MainFile \in DOMAIN hashes
  /\ ~trig.verdict
  /\ wpc = "recv"

\* C16: recompilations are strictly sequential: at most one call of
\* compile_once is in progress, namely while the watch task is inside it,
\* and reset() runs only as the first step of that one call.
C16_OneCompileAtATime ==
  /\ running <= 1
  /\ running = 1 <=> wpc \in {"resolve", "typst"}
  /\ last.op = "reset" => (running = 1 /\ wpc = "resolve")

\* C16, its case: an event has arrived while the second compilation is
\* running and waits in the channel.
C16_EventDuringCompile ==
  /\ cycle >= 2
  /\ running = 1
  /\ wpc = "typst"
  /\ rx # <<>>
  /\ Relevant(hashes, paths, dir, Head(rx))

\* C17: errors reported by the compiler are never fatal: compile_once
\* reports them and returns normally, and the loop waits for later events.
\* When the report cannot be written, print_diagnostics fails and the error
\* leaves compile_once and watch through ?.
C17_CompileErrorsNotFatal ==
  outcome \in {"errors", "diagnostics_failed"} => wpc # "exit"

(***************************************************************************)
(* Claims about the hub, checked under SpecHub.                            *)
(***************************************************************************)
Range(s) == {s[k] : k \in 1..Len(s)}

\* a broadcast is in progress from taking the lock of conns to dropping it
InProgress(t) == tasks[t].pc = "locked" /\ Holds(t)

\* the sessions of s whose send did not fail in broadcast t, in order
Survivors(s, t) ==
  LET NotFailed(session) == session \notin tasks[t].failed
  IN SelectSeq(s, NotFailed)

\* C4: after a broadcast over the sessions S in which the sends to the
\* sessions F failed, the session set is S without F in its order, every
\* survivor was sent the message, and the set was not changed before every
\* send had been attempted.
C4_PruneAfterFullPass ==
  [][\A t \in DOMAIN tasks :
       InProgress(t) =>
         /\ conns' # conns =>
              /\ tasks'[t].pc = "done"
              /\ tasks[t].i = Len(conns)
         /\ tasks'[t].pc = "done" =>
              /\ conns' = Survivors(conns, t)
              /\ \A session \in Range(conns) :
                   \/ session \in tasks[t].failed
                   \/ Message(t) \in Range(inbox[session])]_vars

\* C4, its case: three sessions, the second gone when the broadcast sends
\* to it, the first and the third sent the message and left in order.
C4_MiddleSessionPruned ==
  \E t \in DOMAIN tasks :
    /\ tasks[t].pc = "done"
    /\ tasks[t].failed = {2}
    /\ conns = <<1, 3>>
    /\ Message(t) \in Range(inbox[1])
    /\ Message(t) \in Range(inbox[3])

\* C5: however the push of the accept loop interleaves with a broadcast in
\* progress, the session being added is not sent the message of that
\* broadcast, is not removed or displaced by its pruning (it enters the set
\* only once the broadcast has dropped the lock), and once in the set it
\* stays for the broadcasts that start afterwards: a session leaves the set
\* only through a broadcast whose send to it failed.
C5_PushExcludedFromPass ==
  [][/\ \A t \in DOMAIN tasks :
          InProgress(t) =>
            \A session \in 1..MaxSessions :
              session \notin Range(conns) =>
                /\ session \notin Range(conns')
                /\ inbox'[session] = inbox[session]
     /\ \A session \in Range(conns) :
          session \notin Range(conns') =>
            \E t \in DOMAIN tasks :
              /\ InProgress(t)
              /\ tasks'[t].pc = "done"
              /\ session \in tasks[t].failed]_vars

\* C5, its case: the accept loop waits for the lock with a new session in
\* hand while a broadcast is part-way through its sends.
C5_PushWaitsForPass ==
  \E t \in DOMAIN tasks :
    /\ InProgress(t)
    /\ tasks[t].i >= 1
    /\ apc = "locked"
    /\ nsess \notin Range(conns)

\* C14: every session is sent the messages of the broadcasts in the order
\* in which their compilations completed (the order of the spawns).
\* The tasks are spawned independently and each encodes its pages before
\* it asks for the lock, so a later broadcast can take the lock first.
C14_BroadcastsInOrder ==
  \A session \in 1..MaxSessions :
    \A j \in 1..Len(inbox[session]) : \A k \in 1..Len(inbox[session]) :
      j < k => inbox[session][j].bid < inbox[session][k].bid

\* C15: a viewer that does not take its message cannot block
\* recompilation: while a broadcast is suspended on a send, holding the
\* lock of conns, every step of the watch task that is due can be taken:
\* the next event received, compile_once started, run and finished.
C15_StalledSendLeavesLoopFree ==
  \A t \in DOMAIN tasks :
    (InProgress(t) /\ tasks[t].i < Len(conns)) =>
      /\ (wpc = "recv" /\ rx # <<>>) => ENABLED WatchRecv
      /\ wpc = "compile" => ENABLED CompileReset
      /\ wpc = "resolve" => ENABLED CompileResolve
      /\ wpc = "typst" => ENABLED CompileEnd("document")

\* C15, its case: a broadcast has sent to one session and is suspended on
\* the next; since that send the loop has received a relevant event and
\* compile_once has run to its end.
C15_CompiledDuringStall ==
  \E t \in DOMAIN tasks :
    /\ InProgress(t)
    /\ tasks[t].i >= 1
    /\ tasks[t].i < Len(conns)
    /\ tasks[t].at < nrecv
    /\ trig.verdict
    /\ wpc = "recv"
    /\ Len(tasks) > t

(***************************************************************************)
(* Claims about the file cache, checked under SpecCache.                   *)
(***************************************************************************)
\* a source or a buffer handed out by the World was loaded in this cycle
FreshSource(res) ==
  IsOk(res) => /\ res.ok + 1 \in DOMAIN sources
               /\ sources[res.ok + 1].gen = cycle
FreshData(res) == IsOk(res) => res.ok.gen = cycle

\* C7 (as amended): every compile_once starts with reset(), and after it
\* every source (resolve) and every buffer (file) the World holds or answers
\* with was loaded in the current cycle; fonts are not covered, they stay
\* memoized in their FontSlot across reset().
C7_FreshSourcesAndFiles ==
  /\ \A k \in DOMAIN sources : sources[k].gen = cycle
  /\ \A h \in DOMAIN paths :
       /\ IsSet(paths[h].source) => FreshSource(paths[h].source[1])
       /\ IsSet(paths[h].buffer) => FreshData(paths[h].buffer[1])
  /\ last.op = "resolve" => FreshSource(last.res)
  /\ last.op = "file" => FreshData(last.res)

\* C7 witness: in a second cycle the root source, loaded in the first cycle
\* too, has been resolved again, and a file lookup has been answered
C7_SecondCycleLookup ==
  /\ cycle >= 2
  /\ Input \in DOMAIN seen
  /\ last.op = "file"
  /\ IsOk(last.res)

\* C7 as stated: no lookup of a cycle, font by index included, is answered
\* from content loaded in an earlier cycle.
C7_FreshLookups ==
  /\ C7_FreshSourcesAndFiles
  /\ last.op = "font" => FreshData(last.res)

\* C8 as stated: within a cycle every resolve(p) after the first returns
\* what the first returned and touches the filesystem neither for the
\* identity nor for the content.
C8_ResolveMemoized ==
  (last.op = "resolve" /\ ~last.first) =>
     /\ last.res = seen[last.path]
     /\ ~last.read
     /\ ~last.stat

\* C9 as stated: between two resets no file is read more than once.
C9_OneReadPerFile == \A i \in Inodes : fileReads[i] <= 1

\* C9 (as amended): between two resets each Slot loads its source at most
\* once and its buffer at most once, whatever paths lead to the Slot.
C9_OneReadPerSlotField ==
  \A h \in Inodes : slotReads[h].source <= 1 /\ slotReads[h].buffer <= 1

\* C9 witness: a Slot whose source and buffer are both loaded answers a
\* further lookup from its memo
C9_MemoHit ==
  /\ last.op \in {"resolve", "file"}
  /\ IsOk(last.res)
  /\ ~last.read
  /\ IsOk(hashes[last.path])
  /\ slotReads[hashes[last.path].ok] = [source |-> 1, buffer |-> 1]

\* C10 as stated: the first resolve of any path after a reset reads the
\* file.  A path that leads to a Slot another path has loaded in this cycle
\* is answered from that Slot without a read.
C10_FirstResolveReads ==
  (last.op = "resolve" /\ last.first /\ IsOk(last.res)) => last.read

\* C10 (as amended): right after reset() the three maps are empty; the
\* resolve that follows goes to the filesystem for the identity and, when
\* the file is there, reads it exactly once; and the first resolve of any
\* path in a cycle is answered with a source read once in this cycle, by
\* that call or by an earlier lookup of the cycle through another path.
C10_ResetThenFreshRead ==
  /\ wpc = "resolve" => (hashes = EmptyMap /\ paths = EmptyMap /\ sources = <<>>)
  /\ (last.op = "resolve" /\ last.first) =>
       /\ IsOk(last.res) =>
            /\ FreshSource(last.res)
            /\ slotReads[hashes[last.path].ok].source = 1
       /\ ~last.hit => last.stat
       /\ DOMAIN seen = {last.path} =>
            /\ last.stat
            /\ last.read <=> IsOk(hashes[last.path])

\* C10 witness: the root path, loaded in an earlier cycle, is read afresh
\* by the first resolve after a later reset
C10_ReloadAfterReset ==
  /\ cycle >= 2
  /\ last.op = "resolve"
  /\ last.path = Input
  /\ DOMAIN seen = {Input}
  /\ last.read
  /\ IsOk(last.res)

\* the file a path names now
Names(p) == dir[Target(p)]

\* C11: two distinct paths that name the same file (a link and its target,
\* a relative and an absolute spelling) lead to the same Slot: while no
\* directory entry changes, the resolves of a cycle return the same source
\* id (or the same error) for both, and the store holds one source per
\* file.
C11_SameFileSameSource ==
  stable =>
    /\ \A p1 \in DOMAIN seen : \A p2 \in DOMAIN seen :
         (Names(p1) # NoFile /\ Names(p1) = Names(p2)) =>
           /\ seen[p1] = seen[p2]
           /\ IsOk(hashes[p1]) /\ hashes[p1] = hashes[p2]
    /\ \A k1 \in DOMAIN sources : \A k2 \in DOMAIN sources :
         Names(sources[k1].path) = Names(sources[k2].path) => k1 = k2

\* C11, its case: a file and a link to it resolved in one cycle, after the
\* root file: two sources in the store
C11_LinkAndTargetResolved ==
  /\ stable
  /\ {DepFile, LinkPath} \subseteq DOMAIN seen
  /\ IsOk(seen[LinkPath])
  /\ seen[LinkPath] = seen[DepFile]
  /\ Len(sources) = 2

\* C18: the map from paths to identities is never updated in place: between
\* two resets every key keeps the value it was inserted with.
\* On a miss slot() inserts under the canonical path without looking whether
\* the key is there, so a lookup through a second path replaces the value.
C18_HashesNeverUpdated ==
  \A k \in DOMAIN hashes : k \in DOMAIN born /\ hashes[k] = born[k]

\* C19: every source gets a small dense id when it is inserted: the i-th
\* source of the store holds id i (counted from 0), and the id a slot has
\* memoized is the id of one source of the store, that of no other slot.
\* The id is the length of the store cut to 16 bits: the 65537th source of
\* a compilation gets id 0, the id of the root file.
C19_DenseSourceIds ==
  /\ \A k \in DOMAIN sources : sources[k].id = k - 1
  /\ \A h \in DOMAIN paths :
       IsSet(paths[h].source) /\ IsOk(paths[h].source[1]) =>
         /\ paths[h].source[1].ok < Len(sources)
         /\ \A g \in DOMAIN paths :
              /\ IsSet(paths[g].source)
              /\ paths[g].source[1] = paths[h].source[1]
              => g = h


\* the events the watcher has handed over and the loop has not taken: those
\* on the channel, then those the blocked callback holds
Waiting == rx \o pending

\* C20: no event is lost or reordered while a compilation is running: an
\* event emitted during compile_once is put behind the events that wait for
\* the loop, the loop takes the events from the front, and an event that
\* waits while a compilation runs is examined by the loop after it.
\* The watcher is installed after the first compile_once, whose events are
\* never seen; and a compile_once that fails ends the loop with the events
\* that wait.
C20_NoEventLostDuringCompile ==
  /\ [][running > 0 /\ emitted' = emitted + 1 =>
          /\ Len(Waiting') = Len(Waiting) + 1
          /\ SubSeq(Waiting', 1, Len(Waiting)) = Waiting]_vars
  /\ [][nrecv' = nrecv + 1 /\ wpc' # "exit" =>
          /\ Waiting' = Tail(Waiting)
          /\ trig'.kind = Head(Waiting).kind
          /\ trig'.paths = Head(Waiting).paths]_vars
  /\ \A n \in 0..MaxEvents :
       (running > 0 /\ rx # <<>> /\ nrecv = n) ~> (nrecv > n)

\* the messages of broadcast t that session s was sent
Sent(s, t) == {j \in 1..Len(inbox[s]) : inbox[s][j].bid = t}

\* the step in which compile_once returns Ok to watch, with the pages of a
\* document or with none after errors of the compiler
ReturnsNormally ==
  wpc = "typst" /\ wpc' # "typst" /\ outcome' \in {"document", "errors"}

\* C21: every compile_once that returns normally, the first one and each
\* one an event triggered, is followed by the spawn of exactly one
\* broadcast, and nothing else spawns one; after errors of the compiler the
\* broadcast carries the empty list of pages; and a broadcast that ends has
\* sent each session of the set whose send did not fail exactly one
\* message, with the pages it carries.
C21_OneBroadcastPerCycle ==
  [][/\ ReturnsNormally =>
          /\ Len(tasks') = Len(tasks) + 1
          /\ SubSeq(tasks', 1, Len(tasks)) = tasks
          /\ tasks'[Len(tasks')].pc = "spawned"
          /\ (outcome' = "errors" => tasks'[Len(tasks')].imgs = <<>>)
     /\ Len(tasks') # Len(tasks) => ReturnsNormally
     /\ \A t \in DOMAIN tasks :
          tasks[t].pc = "locked" /\ tasks'[t].pc = "done" =>
            \A k \in 1..Len(conns) :
              conns[k] \notin tasks[t].failed =>
                /\ Cardinality(Sent(conns[k], t)) = 1
                /\ \A j \in Sent(conns[k], t) :
                     inbox[conns[k]][j].pages = tasks[t].imgs]_vars

\* the compilation an event triggered ended with errors of the compiler,
\* and its broadcast, the second, has sent a viewer the empty list
C21_EmptyListSent ==
  /\ cycle = 2
  /\ outcome = "errors"
  /\ Len(tasks) = 2
  /\ tasks[2].pc = "done"
  /\ tasks[2].imgs = <<>>
  /\ \E s \in 1..MaxSessions : \E j \in Sent(s, 2) : inbox[s][j].pages = <<>>

\* whether the transport of session s accepts writes
Writable(s) == s \in alive /\ s \notin hung

\* C22: every dispatched broadcast is in the end sent to every session of
\* the set whose transport accepts writes, and every connection whose
\* handshake is done is in the end added to the set, whatever happens to
\* the writes to other sessions.
\* broadcast_result keeps the mutex of the set across each send: a send
\* that stays pending keeps the sessions behind it, the broadcasts after it
\* and the push of the accept loop waiting for good.
C22_ProgressDespiteHungSession ==
  /\ \A t \in 1..MaxChanges : \A s \in 1..MaxSessions :
       (t \in DOMAIN tasks /\ tasks[t].pc = "spawned" /\ s \in Range(conns))
         ~> (Sent(s, t) # {} \/ ~Writable(s) \/ MainEnded \/ apc = "ended")
  /\ \A n \in 1..MaxSessions :
       (apc = "locked" /\ nsess = n) ~> (n \in Range(conns))

\* C23: a handshake that fails touches its own connection only: in the
\* step in which accept_connection ends without a websocket the session
\* set stays as it is, the accept loop is back at accept for the next
\* connection and the watch task is where it was; and the watch task is
\* never ended by such a failure.
\* accept_connection ends such a handshake with a panic of expect, inside
\* the future main runs: main is over, and once the compilation under way
\* is done the process ends, the watch task with it.
C23_FailedHandshakeIsLocal ==
  /\ [][apc = "handshake" /\ apc' \notin {"handshake", "locked"} =>
          /\ conns' = conns
          /\ apc' = "accept"
          /\ wpc' = wpc
          /\ watching' = watching]_vars
  /\ [](~(outcome = "main_panicked" /\ nsess > 0))

=============================================================================
